---- MODULE Spec2Model ----
(***************************************************************************)
(* Model of the AutoCrawler traversal engine (App component, src/types.ts) *)
(* and of the services it calls (src/services).                            *)
(*                                                                         *)
(* A URL, a title and a page content are sequences of tokens (a token is   *)
(* one character or one fixed piece of text), so that the string           *)
(* operations of the code are computed, not assumed.                       *)
(***************************************************************************)
EXTENDS Integers, Sequences, FiniteSets, TLC

(* ------------------------------ bounds --------------------------------- *)
\* number of times the user clicks Crawl (Spec); SpecRestart allows one more
MaxCrawls == 1
\* largest page-limit the user types
MaxLimit == 2
\* largest page id the user types in the ID range
MaxPageId == 2
\* the largest start and end given to generatePaginatedUrls on its own
MaxIndex == 11
\* the most Page Results given to handleDownload on its own
MaxExport == 2
\* the most anchors of a document given to parseHtml on its own
MaxAnchors == 2

(* --------------------------- input domains ----------------------------- *)
PLACEHOLDER == "{{page}}"
UrlA == <<"a">>
UrlB == <<"b">>
UrlC == <<"c">>
\* what parseHtml extracts from the document each URL serves: the title and
\* the links (document order, duplicates kept)
Document(url) ==
  CASE url = UrlA -> [title |-> <<"Home">>, links |-> <<UrlB, UrlB, UrlC>>]
    [] url = UrlB -> [title |-> <<"Home">>, links |-> <<UrlC, UrlB, UrlC, UrlA>>]
    [] url = UrlC -> [title |-> <<"Page", " ", "Not", " ", "Found">>, links |-> <<>>]
    [] OTHER -> [title |-> <<"Home">>, links |-> <<UrlA>>]
\* the text parseHtml extracts
PageText == <<"text">>

NoUrl == <<>>

\* the control settings the user starts a crawl with; a control the chosen
\* mode does not show keeps its initial value
Ui(u, m, n, g, sp, ep) ==
  [urlInput |-> u, crawlMode |-> m, maxPages |-> n, isGeminiEnabled |-> g,
   startPage |-> sp, endPage |-> ep]
Controls ==
  {Ui(<<>>, "single", MaxLimit, FALSE, 1, MaxPageId)}
  \cup {Ui(UrlC, "single", MaxLimit, g, 1, MaxPageId) : g \in BOOLEAN}
  \cup {Ui(<<"n", "/", PLACEHOLDER>>, "pagination", MaxLimit, FALSE, r[1], r[2]) :
      r \in {<<1, MaxPageId>>, <<MaxPageId, 1>>}}
  \cup {Ui(UrlA, "link-follow", n, FALSE, 1, MaxPageId) : n \in 1..MaxLimit}

VARIABLES
  urlInput, maxPages, isGeminiEnabled, crawlMode, startPage, endPage,
  status, logs,
  statusRef, queueRef, visitedRef, pagesRef,
  chains, crawls, run,
  retr, genr, expo, extr

uiVars == <<urlInput, maxPages, isGeminiEnabled, crawlMode, startPage, endPage>>
vars == <<urlInput, maxPages, isGeminiEnabled, crawlMode, startPage, endPage,
          status, logs, statusRef, queueRef, visitedRef, pagesRef,
          chains, crawls, run, retr, genr, expo, extr>>

\* the state of the services when they are exercised on their own
svcVars == <<retr, genr, expo, extr>>

ChainIds == 1..(MaxCrawls + 1)

(* ------------------------------ helpers -------------------------------- *)
\* the LogEntry addLog appends (id and timestamp left out)
addLog(ls, message, type) == Append(ls, [message |-> message, type |-> type])

\* s.includes(tok) for a one-token needle
includes(s, tok) == \E i \in 1..Len(s) : s[i] = tok

\* s.endsWith(tok) for a one-token needle
endsWith(s, tok) == Len(s) > 0 /\ s[Len(s)] = tok

\* s.replace(tok, r): only the first occurrence is replaced
replace(s, tok, r) ==
  IF ~includes(s, tok) THEN s
  ELSE LET i == CHOOSE k \in 1..Len(s) :
                  s[k] = tok /\ \A j \in 1..(k-1) : s[j] # tok
       IN SubSeq(s, 1, i-1) \o r \o SubSeq(s, i+1, Len(s))

DigitChars == <<"0", "1", "2", "3", "4", "5", "6", "7", "8", "9">>

\* i.toString() for a non-negative integer
RECURSIVE toString(_)
toString(i) ==
  IF i < 10 THEN <<DigitChars[i+1]>>
  ELSE toString(i \div 10) \o <<DigitChars[(i % 10) + 1]>>

RECURSIVE genFrom(_, _, _)
genFrom(baseUrl, i, end) ==
  IF i > end THEN <<>>
  ELSE <<(IF includes(baseUrl, PLACEHOLDER)
            THEN replace(baseUrl, PLACEHOLDER, toString(i))
            ELSE IF endsWith(baseUrl, "=") \/ endsWith(baseUrl, "/")
                   THEN baseUrl \o toString(i)
                   ELSE baseUrl \o <<"/">> \o toString(i))>>
       \o genFrom(baseUrl, i+1, end)

generatePaginatedUrls_exclusiveEnd(baseUrl, start, end) == genFrom(baseUrl, start, end - 1)

generatePaginatedUrls(baseUrl, start, end) == genFrom(baseUrl, start, end)

\* links.filter(l => !visitedRef.current.has(l))
RECURSIVE filterUnvisited(_, _)
filterUnvisited(links, visited) ==
  IF links = <<>> THEN <<>>
  ELSE (IF Head(links) \in visited THEN <<>> ELSE <<Head(links)>>)
       \o filterUnvisited(Tail(links), visited)

(* --------------------------- engine state ------------------------------ *)
\* the refs and React state processQueue reads and writes, as one record
EngineState == [status |-> status, logs |-> logs, statusRef |-> statusRef,
                queueRef |-> queueRef, visitedRef |-> visitedRef,
                pagesRef |-> pagesRef, cur |-> NoUrl]

finishCrawl(s, reason) ==
  [s EXCEPT !.status = "COMPLETED", !.statusRef = "COMPLETED",
            !.logs = addLog(@, <<"Crawl Finished", reason>>, "success")]

\* processQueue up to its first await: cfg is the configuration its closure
\* captured; the result's cur is the URL whose retrieval it started, if any
RECURSIVE processQueue(_, _)

\* lines 158-161: the dequeued URL is in the visited set, processQueue calls
\* itself at once; s1 is the state after the shift
skipVisited_stops(cfg, s1) == s1

skipVisited(cfg, s1) == processQueue(cfg, s1)

processQueue(cfg, s) ==
  IF s.statusRef # "RUNNING" THEN s
  ELSE IF Len(s.queueRef) = 0 THEN finishCrawl(s, "Queue is empty.")
  ELSE IF cfg.crawlMode = "link-follow" /\ Len(s.pagesRef) >= cfg.maxPages
    THEN finishCrawl(s, "Reached limit")
  ELSE LET currentUrl == Head(s.queueRef)
           s1 == [s EXCEPT !.queueRef = Tail(@)]
       IN IF currentUrl = <<>> THEN s1
          ELSE IF currentUrl \in s1.visitedRef THEN skipVisited(cfg, s1)
          ELSE [s1 EXCEPT !.visitedRef = @ \cup {currentUrl},
                          !.logs = addLog(@, <<"Crawling", currentUrl>>, "info"),
                          !.cur = currentUrl]

IdleChain == [pc |-> "idle", url |-> NoUrl, run |-> 0, settled |-> "",
              cfg |-> [crawlMode |-> "single", maxPages |-> 1, isGeminiEnabled |-> FALSE],
              title |-> <<>>, links |-> <<>>, content |-> <<>>]

\* the continuation left by a processQueue call that ran to s during run r
ChainAfter(cfg, s, r) ==
  IF s.cur = NoUrl THEN IdleChain
  ELSE [IdleChain EXCEPT !.pc = "fetch", !.url = s.cur, !.cfg = cfg, !.run = r]

InFlight(c) == chains[c].pc \in {"fetch", "summarize"}

\* write the engine record back to the variables
Commit(s) ==
  /\ status' = s.status
  /\ logs' = s.logs
  /\ statusRef' = s.statusRef
  /\ queueRef' = s.queueRef
  /\ visitedRef' = s.visitedRef
  /\ pagesRef' = s.pagesRef

(* ------------------------------ Retriever ------------------------------ *)
\* PROXIES.length
NumProxies == 5
\* the least html.length fetchUrlContent accepts
MinHtmlLength == 50

\* what one proxy does with a request: the fetch rejects or is aborted by the
\* 30 s timer, the response is not ok, extract rejects, or extract returns
\* content of the given length
ProxyOutcomes == {"abort", "notok", "extractFails", "empty", "short", "ok"}
HtmlLength(o) ==
  CASE o = "empty" -> 0
    [] o = "short" -> MinHtmlLength - 1
    [] OTHER -> MinHtmlLength

\* retr before fetchUrlContent is called
IdleRetriever ==
  [outcomes |-> <<>>, i |-> 0, contacted |-> <<>>, result |-> "none",
   html |-> 0, status |-> 0]

\* one iteration of the for loop of fetchUrlContent on proxy r.i; the html a
\* proxy returns is named by the index of that proxy
tryProxy_noValidation(r) ==
  LET o == r.outcomes[r.i]
      r1 == [r EXCEPT !.contacted = Append(@, r.i)]
  IN IF o \in {"abort", "notok", "extractFails"}
       THEN [r1 EXCEPT !.i = @ + 1]
       ELSE [r1 EXCEPT !.result = "returned", !.html = r.i, !.status = 200]

tryProxy(r) ==
  LET o == r.outcomes[r.i]
      r1 == [r EXCEPT !.contacted = Append(@, r.i)]
  IN IF o = "abort" THEN [r1 EXCEPT !.i = @ + 1]
     ELSE IF o = "notok" THEN [r1 EXCEPT !.i = @ + 1]
     ELSE IF o = "extractFails" THEN [r1 EXCEPT !.i = @ + 1]
     ELSE IF HtmlLength(o) = 0 \/ HtmlLength(o) < MinHtmlLength
       THEN [r1 EXCEPT !.i = @ + 1]
     ELSE [r1 EXCEPT !.result = "returned", !.html = r.i, !.status = 200]

(* ---------------------------- URL Generator ---------------------------- *)
\* genr before generatePaginatedUrls is called
IdleGenerator == [baseUrl |-> <<>>, start |-> 0, end |-> 0, done |-> FALSE, urls |-> <<>>]

(* ------------------------------- Export -------------------------------- *)
\* expo before handleDownload is called: the pages React state, the log and
\* the file handed to the browser
IdleExport == [pages |-> <<>>, done |-> FALSE, made |-> FALSE, file |-> <<>>, logs |-> <<>>]

BOM == "\\uFEFF"
ReportRule == "================================================="
RecordRule == "-------------------------------------------------"

\* one pass of data.forEach: the block of data[index + 1], index counted from 0
recordBlock(page, index) ==
  <<"FILE #">> \o toString(index + 1) \o <<": ">> \o page.url \o <<"\n">>
  \o <<"TITLE: ">> \o page.title \o <<"\n">>
  \o <<"STATUS: ", page.status, "\n">>
  \o <<RecordRule, "\n">>
  \o page.content \o <<"\n">>
  \o <<"\n", ReportRule, "\n\n">>

RECURSIVE recordBlocks(_, _)
recordBlocks(data, index) ==
  IF index >= Len(data) THEN <<>>
  ELSE recordBlock(data[index + 1], index) \o recordBlocks(data, index + 1)

\* the text of the Blob; "now" stands for new Date().toLocaleString()
downloadAsTextFile_skipsFirst(data) ==
  <<BOM, "CRAWL REPORT - ", "now", "\n">>
  \o <<"Total Pages: ">> \o toString(Len(data)) \o <<"\n">>
  \o <<ReportRule, "\n\n">>
  \o recordBlocks(data, 1)

downloadAsTextFile(data) ==
  <<BOM, "CRAWL REPORT - ", "now", "\n">>
  \o <<"Total Pages: ">> \o toString(Len(data)) \o <<"\n">>
  \o <<ReportRule, "\n\n">>
  \o recordBlocks(data, 0)

\* handleDownload on e
handleDownload(e) ==
  IF Len(e.pages) = 0
    THEN [e EXCEPT !.done = TRUE,
                   !.logs = addLog(@, <<"No data to download.">>, "warning")]
    ELSE [e EXCEPT !.done = TRUE, !.made = TRUE,
                   !.file = downloadAsTextFile(e.pages),
                   !.logs = addLog(@, <<"File download initiated.">>, "success")]

(* ------------------------------ Extractor ------------------------------ *)
\* extr before parseHtml is called: the source url, the a[href] elements of
\* the parsed document in document order, and the links returned
IdleExtractor == [url |-> <<>>, anchors |-> <<>>, done |-> FALSE, links |-> <<>>]

\* URLs are sequences of tokens: a scheme, "//", a host, then the path
Schemes == {"http:", "https:", "httpx:", "mailto:"}
SpecialSchemes == {"http:", "https:"}

\* new URL(href, base).href, base = <<>> when no base is given; ok is FALSE
\* when the constructor throws
newURL(href, base) ==
  IF href # <<>> /\ href[1] \in Schemes
    THEN IF href[1] \in SpecialSchemes
           THEN IF Len(href) >= 3 /\ href[2] = "//"
                  THEN [ok |-> TRUE,
                        href |-> IF Len(href) = 3 THEN href \o <<"/">> ELSE href]
                  ELSE [ok |-> FALSE, href |-> <<>>]
           ELSE [ok |-> TRUE, href |-> href]
  ELSE IF base = <<>> THEN [ok |-> FALSE, href |-> <<>>]
  ELSE IF href # <<>> /\ href[1] = "/" THEN [ok |-> TRUE, href |-> base \o href]
  ELSE [ok |-> TRUE, href |-> base \o <<"/">> \o href]

\* baseUrlObj.origin of a parsed http(s) URL
origin(url) == SubSeq(url, 1, 3)

\* absoluteUrl.startsWith('http')
startsWithHttp_always(url) == TRUE

startsWithHttp(url) == url # <<>> /\ url[1] \in {"http:", "https:", "httpx:"}

\* lines 81-94: elements under a denylisted selector are removed from the document
removeTrash(anchors) == SelectSeq(anchors, LAMBDA a : ~a.inTrash)

\* lines 170-181: the forEach over the a[href] elements left in the document
RECURSIVE collectLinks(_, _)
collectLinks(anchors, base) ==
  IF anchors = <<>> THEN <<>>
  ELSE LET href == Head(anchors).href
           abs == newURL(href, base)
       IN (IF href # <<>> /\ abs.ok /\ startsWithHttp(abs.href)
             THEN <<abs.href>> ELSE <<>>)
          \o collectLinks(Tail(anchors), base)

\* the links parseHtml returns for a document with these anchors
parseHtml(anchors, url) ==
  IF newURL(url, <<>>).ok
    THEN collectLinks(removeTrash(anchors), origin(newURL(url, <<>>).href))
    ELSE <<>>

(* ------------------------------- Init ---------------------------------- *)
\* the state after the first render; the code's defaults maxPages = 5 and
\* endPage = 3 are scaled to the bounds, the default URL is UrlA
Init ==
  /\ urlInput = UrlA
  /\ maxPages = MaxLimit
  /\ isGeminiEnabled = FALSE
  /\ crawlMode = "single"
  /\ startPage = 1
  /\ endPage = MaxPageId
  /\ status = "IDLE"
  /\ logs = <<>>
  /\ statusRef = "IDLE"
  /\ queueRef = <<>>
  /\ visitedRef = {}
  /\ pagesRef = <<>>
  /\ chains = [c \in ChainIds |-> IdleChain]
  /\ crawls = 0
  /\ run = 0
  /\ retr = IdleRetriever
  /\ genr = IdleGenerator
  /\ expo = IdleExport
  /\ extr = IdleExtractor

(* ------------------------- page post-processing ------------------------ *)
toLowerCase(s) ==
  [i \in 1..Len(s) |->
     CASE s[i] = "Page" -> "page"
       [] s[i] = "Not" -> "not"
       [] s[i] = "Found" -> "found"
       [] s[i] = "Home" -> "home"
       [] OTHER -> s[i]]

\* s.includes(pat) for a needle of several tokens
includesSeq(s, pat) ==
  \E i \in 1..(Len(s) - Len(pat) + 1) : SubSeq(s, i, i + Len(pat) - 1) = pat

isSoft404(title) ==
  \/ includesSeq(toLowerCase(title), <<"page", " ", "not", " ", "found">>)
  \/ includesSeq(toLowerCase(title), <<"404">>)

WarningBanner == <<"[WARNING: PAGE NOT FOUND OR EMPTY]", "\n\n">>

\* finalContent before summarization
contentAfter404(title, text) ==
  IF isSoft404(title) THEN WarningBanner \o text ELSE text

\* finalContent when summarizeContent returned summary
contentWithSummary(summary, text) ==
  <<"[AI SUMMARY]: ">> \o summary
    \o <<"\n\n================================\n[FULL CONTENT]:\n">> \o text

\* what summarizeContent does: "throw" or the text it returns; upstream is
\* the outcome of the generateContent call
SummarizeOutcomes == {"text", "empty", "error"}
summarizeContent(hasKey, upstream) ==
  IF ~hasKey THEN [threw |-> TRUE, text |-> <<>>]
  ELSE IF upstream = "error"
    THEN [threw |-> FALSE, text |-> <<"Error generating summary.">>]
  ELSE IF upstream = "empty"
    THEN [threw |-> FALSE, text |-> <<"No summary available.">>]
  ELSE [threw |-> FALSE, text |-> <<"summary">>]

newPage_failed(url, title, content, links) ==
  [url |-> url, title |-> title, content |-> content,
   status |-> "failed", linksFound |-> Len(links)]

newPage(url, title, content, links) ==
  [url |-> url, title |-> title, content |-> content,
   status |-> "success", linksFound |-> Len(links)]

\* lines 193-211: push the page and, in link-follow mode, enqueue the links
recordPage_ifRunning(cfg, s, url, title, content, links) ==
  IF s.statusRef # "RUNNING" THEN s
  ELSE LET s1 == [s EXCEPT !.pagesRef = Append(@, newPage(url, title, content, links))]
       IN IF cfg.crawlMode = "link-follow"
            THEN [s1 EXCEPT !.queueRef = @ \o filterUnvisited(links, s1.visitedRef),
                            !.logs = addLog(@, <<"Found links", Len(links)>>, "info")]
            ELSE s1

recordPage(cfg, s, url, title, content, links) ==
  LET s1 == [s EXCEPT !.pagesRef = Append(@, newPage(url, title, content, links))]
  IN IF cfg.crawlMode = "link-follow"
       THEN [s1 EXCEPT !.queueRef = @ \o filterUnvisited(links, s1.visitedRef),
                       !.logs = addLog(@, <<"Found links", Len(links)>>, "info")]
       ELSE s1

(* ------------------------------ actions -------------------------------- *)
\* lines 98-101: the seed is empty, the click is rejected
rejectStart_setsError ==
  /\ logs' = addLog(logs, <<"Please enter a valid URL">>, "error")
  /\ status' = "ERROR"
  /\ UNCHANGED <<statusRef, queueRef, visitedRef, pagesRef, chains, run>>

rejectStart ==
  /\ logs' = addLog(logs, <<"Please enter a valid URL">>, "error")
  /\ UNCHANGED <<status, statusRef, queueRef, visitedRef, pagesRef, chains, run>>

\* handleCrawlStart, run in a render whose state holds the primed control
\* values; the Crawl button is rendered only while status # RUNNING
handleCrawlStart ==
  /\ status # "RUNNING"
  /\ IF urlInput' = <<>>
       THEN rejectStart
       ELSE LET cfg == [crawlMode |-> crawlMode', maxPages |-> maxPages',
                        isGeminiEnabled |-> isGeminiEnabled']
                reset == [EngineState EXCEPT !.logs = <<>>, !.pagesRef = <<>>,
                            !.status = "RUNNING", !.statusRef = "RUNNING",
                            !.visitedRef = {}]
                gen == generatePaginatedUrls(urlInput', startPage', endPage')
            IN /\ run' = run + 1
               /\ IF cfg.crawlMode = "pagination" /\ Len(gen) = 0
                    THEN /\ Commit([reset EXCEPT
                              !.logs = addLog(addLog(@, <<"Generating URLs">>, "info"),
                                              <<"Could not generate URLs">>, "error"),
                              !.status = "ERROR"])
                         /\ UNCHANGED chains
                    ELSE LET s0 == IF cfg.crawlMode = "pagination"
                                     THEN [reset EXCEPT
                                        !.logs = addLog(addLog(addLog(@,
                                                    <<"Generating URLs">>, "info"),
                                                    <<"Generated", Len(gen)>>, "info"),
                                                    <<"First URL", gen[1]>>, "info"),
                                        !.queueRef = gen]
                                     ELSE IF cfg.crawlMode = "single"
                                     THEN [reset EXCEPT
                                        !.logs = addLog(@, <<"Preparing", urlInput'>>, "info"),
                                        !.queueRef = <<urlInput'>>]
                                     ELSE [reset EXCEPT
                                        !.logs = addLog(@, <<"Starting Link Discovery",
                                                             urlInput'>>, "info"),
                                        !.queueRef = <<urlInput'>>]
                             s == processQueue(cfg, s0)
                         IN /\ Commit(s)
                            /\ chains' = [chains EXCEPT
                                            ![crawls'] = ChainAfter(cfg, s, run')]

\* the user sets the controls to u, then clicks Crawl; budget bounds the clicks
Crawl(u, budget) ==
  /\ crawls < budget
  /\ crawls' = crawls + 1
  /\ urlInput' = u.urlInput
  /\ crawlMode' = u.crawlMode
  /\ maxPages' = u.maxPages
  /\ isGeminiEnabled' = u.isGeminiEnabled
  /\ startPage' = u.startPage
  /\ endPage' = u.endPage
  /\ handleCrawlStart
  /\ UNCHANGED svcVars

\* handleStop; the Stop button is rendered only while status = RUNNING
handleStop_noRef ==
  /\ status = "RUNNING"
  /\ status' = "PAUSED"
  /\ logs' = addLog(logs, <<"Process paused by user.">>, "warning")
  /\ UNCHANGED <<uiVars, statusRef, queueRef, visitedRef, pagesRef, chains, crawls, run,
                 svcVars>>

handleStop ==
  /\ status = "RUNNING"
  /\ status' = "PAUSED"
  /\ statusRef' = "PAUSED"
  /\ logs' = addLog(logs, <<"Process paused by user.">>, "warning")
  /\ UNCHANGED <<uiVars, queueRef, visitedRef, pagesRef, chains, crawls, run, svcVars>>

\* the step scheduled by setTimeout(() => processQueue(), 1000) fires
DelayedStep_liveControls(c) ==
  /\ chains[c].pc = "delay"
  /\ LET cfg == [crawlMode |-> crawlMode, maxPages |-> maxPages,
                 isGeminiEnabled |-> isGeminiEnabled]
         s == processQueue(cfg, EngineState)
     IN /\ Commit(s)
        /\ chains' = [chains EXCEPT ![c] = ChainAfter(chains[c].cfg, s, run)]
  /\ UNCHANGED <<uiVars, crawls, run, svcVars>>

DelayedStep(c) ==
  /\ chains[c].pc = "delay"
  /\ LET s == processQueue(chains[c].cfg, EngineState)
     IN /\ Commit(s)
        /\ chains' = [chains EXCEPT ![c] = ChainAfter(chains[c].cfg, s, run)]
  /\ UNCHANGED <<uiVars, crawls, run, svcVars>>

\* lines 215-217: fetchUrlContent threw
fetchFailed_fatal(c) ==
  /\ logs' = addLog(logs, <<"Error", "Unable to crawl URL">>, "error")
  /\ status' = "ERROR"
  /\ statusRef' = "ERROR"
  /\ chains' = [chains EXCEPT ![c].pc = "delay", ![c].settled = "failed"]
  /\ UNCHANGED <<queueRef, visitedRef, pagesRef>>

fetchFailed(c) ==
  /\ logs' = addLog(logs, <<"Error", "Unable to crawl URL">>, "error")
  /\ chains' = [chains EXCEPT ![c].pc = "delay", ![c].settled = "failed"]
  /\ UNCHANGED <<status, statusRef, queueRef, visitedRef, pagesRef>>

\* lines 171-211 up to the summarizer call: fetchUrlContent returned status 200
fetched(c) ==
  LET ch == chains[c]
      title == Document(ch.url).title
      links == Document(ch.url).links
      l1 == addLog(logs, <<"Fetched">>, "success")
      l2 == IF isSoft404(title)
              THEN addLog(l1, <<"Warning: Page appears to be empty or 404.">>, "warning")
              ELSE l1
      content == contentAfter404(title, PageText)
  IN IF ch.cfg.isGeminiEnabled
       THEN /\ logs' = addLog(l2, <<"Summarizing">>, "info")
            /\ chains' = [chains EXCEPT ![c].pc = "summarize",
                             ![c].title = title, ![c].links = links,
                             ![c].content = content, ![c].settled = "fetched"]
            /\ UNCHANGED <<status, statusRef, queueRef, visitedRef, pagesRef>>
       ELSE /\ Commit(recordPage(ch.cfg, [EngineState EXCEPT !.logs = l2],
                                 ch.url, title, content, links))
            /\ chains' = [chains EXCEPT ![c].pc = "delay", ![c].settled = "fetched"]

\* await fetchUrlContent(currentUrl) settles: it threw, or returned status 200
FetchDone(c) ==
  /\ chains[c].pc = "fetch"
  /\ \/ fetchFailed(c)
     \/ fetched(c)
  /\ UNCHANGED <<uiVars, crawls, run, svcVars>>

\* await summarizeContent(text) settles; settled records how
SummarizeDone(c) ==
  /\ chains[c].pc = "summarize"
  /\ \E hasKey \in BOOLEAN, upstream \in SummarizeOutcomes :
       LET ch == chains[c]
           r == summarizeContent(hasKey, upstream)
           content == IF r.threw THEN ch.content
                      ELSE contentWithSummary(r.text, PageText)
           l1 == IF r.threw THEN addLog(logs, <<"AI Summary skipped.">>, "warning")
                 ELSE logs
       IN /\ Commit(recordPage(ch.cfg, [EngineState EXCEPT !.logs = l1],
                               ch.url, ch.title, content, ch.links))
          /\ chains' = [chains EXCEPT ![c].pc = "delay",
                           ![c].settled = IF hasKey THEN upstream ELSE "nokey"]
  /\ UNCHANGED <<uiVars, crawls, run, svcVars>>

Next ==
  \/ \E u \in Controls : Crawl(u, MaxCrawls)
  \/ handleStop
  \/ \E c \in ChainIds : DelayedStep(c)
  \/ \E c \in ChainIds : FetchDone(c)
  \/ \E c \in ChainIds : SummarizeDone(c)

Spec == Init /\ [][Next]_vars

\* the same program with one more click, so that a crawl can be started while
\* the continuation of the previous one is still pending
NextRestart ==
  \/ \E u \in Controls : Crawl(u, MaxCrawls + 1)
  \/ handleStop
  \/ \E c \in ChainIds : DelayedStep(c)
  \/ \E c \in ChainIds : FetchDone(c)
  \/ \E c \in ChainIds : SummarizeDone(c)

SpecRestart == Init /\ [][NextRestart]_vars

\* every pending retrieval, summarizer call and 1 s timer eventually fires
EngineFairness ==
  \A c \in ChainIds :
    /\ WF_vars(DelayedStep(c))
    /\ WF_vars(FetchDone(c))
    /\ WF_vars(SummarizeDone(c))

SpecRestartFair == SpecRestart /\ EngineFairness

(* ------------------- one run with the controls left free ---------------- *)
\* lines 299-313: a click on one of the three mode buttons
setCrawlMode(m) ==
  /\ m # crawlMode
  /\ crawlMode' = m
  /\ UNCHANGED <<urlInput, maxPages, isGeminiEnabled, startPage, endPage>>
  /\ UNCHANGED <<status, logs, statusRef, queueRef, visitedRef, pagesRef, chains,
                 crawls, run, svcVars>>

\* lines 395-404: the page limit input, shown in link-follow mode only
setMaxPages(n) ==
  /\ crawlMode = "link-follow"
  /\ n # maxPages
  /\ maxPages' = n
  /\ UNCHANGED <<urlInput, crawlMode, isGeminiEnabled, startPage, endPage>>
  /\ UNCHANGED <<status, logs, statusRef, queueRef, visitedRef, pagesRef, chains,
                 crawls, run, svcVars>>

\* line 441: the summarization toggle
setIsGeminiEnabled ==
  /\ isGeminiEnabled' = ~isGeminiEnabled
  /\ UNCHANGED <<urlInput, crawlMode, maxPages, startPage, endPage>>
  /\ UNCHANGED <<status, logs, statusRef, queueRef, visitedRef, pagesRef, chains,
                 crawls, run, svcVars>>

\* one start, and the controls can be changed at any time
NextControls ==
  \/ \E u \in Controls : Crawl(u, 1)
  \/ handleStop
  \/ \E m \in {"single", "pagination", "link-follow"} : setCrawlMode(m)
  \/ \E n \in 1..MaxLimit : setMaxPages(n)
  \/ setIsGeminiEnabled
  \/ \E c \in ChainIds : DelayedStep(c)
  \/ \E c \in ChainIds : FetchDone(c)
  \/ \E c \in ChainIds : SummarizeDone(c)

SpecControls == Init /\ [][NextControls]_vars

(* ------------------- fetchUrlContent exercised on its own --------------- *)
engineIdle ==
  /\ urlInput = UrlA
  /\ maxPages = MaxLimit
  /\ isGeminiEnabled = FALSE
  /\ crawlMode = "single"
  /\ startPage = 1
  /\ endPage = MaxPageId
  /\ status = "IDLE"
  /\ logs = <<>>
  /\ statusRef = "IDLE"
  /\ queueRef = <<>>
  /\ visitedRef = {}
  /\ pagesRef = <<>>
  /\ chains = [c \in ChainIds |-> IdleChain]
  /\ crawls = 0
  /\ run = 0

engineVars == <<uiVars, status, logs, statusRef, queueRef, visitedRef, pagesRef,
                chains, crawls, run>>

\* fetchUrlContent is called; each proxy will behave as outcomes says
InitRetriever ==
  /\ engineIdle
  /\ genr = IdleGenerator
  /\ expo = IdleExport
  /\ extr = IdleExtractor
  /\ \E outcomes \in [1..NumProxies -> ProxyOutcomes] :
       retr = [IdleRetriever EXCEPT !.outcomes = outcomes, !.i = 1,
                                    !.result = "pending"]

\* lines 44-72: the loop body runs for the next proxy
ProxyAttempt ==
  /\ retr.result = "pending"
  /\ retr.i <= NumProxies
  /\ retr' = tryProxy(retr)
  /\ UNCHANGED <<engineVars, genr, expo, extr>>

\* line 74: the loop is over, fetchUrlContent throws
RetrieverGivesUp_early ==
  /\ retr.result = "pending"
  /\ retr.i > 1
  /\ retr' = [retr EXCEPT !.result = "threw"]
  /\ UNCHANGED <<engineVars, genr, expo, extr>>

RetrieverGivesUp ==
  /\ retr.result = "pending"
  /\ retr.i > NumProxies
  /\ retr' = [retr EXCEPT !.result = "threw"]
  /\ UNCHANGED <<engineVars, genr, expo, extr>>

NextRetriever ==
  \/ ProxyAttempt
  \/ RetrieverGivesUp

SpecRetriever == InitRetriever /\ [][NextRetriever]_vars

(* ---------------- generatePaginatedUrls exercised on its own ------------ *)
\* base URLs: with the placeholder once, twice, and first; ending in "=", in
\* "/", in neither; and the empty string
BaseUrls ==
  { <<"n", "/", PLACEHOLDER>>,
    <<"n", "/", PLACEHOLDER, "/", PLACEHOLDER>>,
    <<PLACEHOLDER, "=">>,
    <<"n", "?", "p", "=">>,
    <<"n", "/">>,
    <<"n">>,
    <<>> }

InitGenerator ==
  /\ engineIdle
  /\ retr = IdleRetriever
  /\ expo = IdleExport
  /\ extr = IdleExtractor
  /\ \E baseUrl \in BaseUrls, start \in 0..MaxIndex, end \in 0..MaxIndex :
       genr = [IdleGenerator EXCEPT !.baseUrl = baseUrl, !.start = start, !.end = end]

\* generatePaginatedUrls(baseUrl, start, end) returns
Generate ==
  /\ ~genr.done
  /\ genr' = [genr EXCEPT !.done = TRUE,
                 !.urls = generatePaginatedUrls(genr.baseUrl, genr.start, genr.end)]
  /\ UNCHANGED <<engineVars, retr, expo, extr>>

NextGenerator == Generate

SpecGenerator == InitGenerator /\ [][NextGenerator]_vars

(* -------------------- handleDownload exercised on its own --------------- *)
\* text a page can hold that reads like the first line of a record block
HeaderLikeText == <<"FILE #", "7", ": ", "x">>

\* Page Results as processQueue builds them
ExportPages ==
  {newPage(url, Document(url).title, content, Document(url).links) :
     url \in {UrlA, UrlB, UrlC}, content \in {PageText, HeaderLikeText \o PageText,
                                                PageText \o <<"\n">> \o HeaderLikeText}}

RECURSIVE PageLists(_)
PageLists(n) ==
  IF n = 0 THEN {<<>>}
  ELSE PageLists(n - 1) \cup
       {Append(l, pg) : l \in {x \in PageLists(n - 1) : Len(x) = n - 1}, pg \in ExportPages}

InitExport ==
  /\ engineIdle
  /\ retr = IdleRetriever
  /\ genr = IdleGenerator
  /\ extr = IdleExtractor
  /\ \E data \in PageLists(MaxExport) : expo = [IdleExport EXCEPT !.pages = data]

\* the user clicks Download
Download ==
  /\ ~expo.done
  /\ expo' = handleDownload(expo)
  /\ UNCHANGED <<engineVars, retr, genr, extr>>

NextExport == Download

SpecExport == InitExport /\ [][NextExport]_vars

(* ----------------------- parseHtml exercised on its own ----------------- *)
\* source URLs: a page, a page in a directory, and a string that is no URL
SourceUrls ==
  { <<"https:", "//", "x.com", "/", "p">>,
    <<"https:", "//", "x.com", "/", "d", "/", "p">>,
    <<"x.com", "/", "p">> }

\* href attributes: absolute with and without a path, path-absolute,
\* relative, other schemes, malformed, and empty
Hrefs ==
  { <<"https:", "//", "y.com", "/", "q">>,
    <<"http:", "//", "y.com">>,
    <<"/", "a", "/", "b">>,
    <<"b">>,
    <<"mailto:", "me">>,
    <<"httpx:", "//", "y.com">>,
    <<"http:", "//">>,
    <<>> }

Anchors == [href : Hrefs, inTrash : BOOLEAN]

RECURSIVE AnchorLists(_)
AnchorLists(n) ==
  IF n = 0 THEN {<<>>}
  ELSE AnchorLists(n - 1) \cup
       {Append(l, a) : l \in {x \in AnchorLists(n - 1) : Len(x) = n - 1}, a \in Anchors}

InitExtractor ==
  /\ engineIdle
  /\ retr = IdleRetriever
  /\ genr = IdleGenerator
  /\ expo = IdleExport
  /\ \E url \in SourceUrls, anchors \in AnchorLists(MaxAnchors) :
       extr = [IdleExtractor EXCEPT !.url = url, !.anchors = anchors]

\* parseHtml(html, url) returns
Extract ==
  /\ ~extr.done
  /\ extr' = [extr EXCEPT !.done = TRUE, !.links = parseHtml(extr.anchors, extr.url)]
  /\ UNCHANGED <<engineVars, retr, genr, expo>>

NextExtractor == Extract

SpecExtractor == InitExtractor /\ [][NextExtractor]_vars

(* ------------------------- vocabulary of the claims --------------------- *)
\* a retrieval (fetch, parse, optional summarization) is in flight
InFlightChains == {c \in ChainIds : InFlight(c)}

\* this step starts no retrieval
NoNewRetrieval ==
  \A c \in ChainIds : chains'[c].pc = "fetch" => chains[c].pc = "fetch"

\* this step removes nothing from the queue
NoDequeue ==
  /\ Len(queueRef') >= Len(queueRef)
  /\ SubSeq(queueRef', 1, Len(queueRef)) = queueRef

\* this step is a click on Crawl
IsClick == crawls' = crawls + 1

\* this step settles the retrieval chain c has in flight
Settles(c) == InFlight(c) /\ chains'[c].pc = "delay"

\* this step is the delayed 'process next' step of chain c
IsDelayedStep(c) == chains[c].pc = "delay" /\ chains'[c].pc # "delay"

LastLog(ls) == ls[Len(ls)]

(* -------------------------------- claims -------------------------------- *)
\* C1: the Page Result list never holds two entries with the same url
\* (link-following and pagination modes), under any interleaving.
C1_NoDuplicateResults ==
  crawlMode \in {"link-follow", "pagination"} =>
    \A i, j \in 1..Len(pagesRef) :
      i # j => pagesRef[i].url # pagesRef[j].url

\* C2: in link-following mode the number of Page Results never exceeds the
\* page-limit of the run.
C2_LimitRespected ==
  (crawlMode = "link-follow" /\ status # "IDLE") => Len(pagesRef) <= maxPages

\* C3: at most one URL retrieval is in flight at any time.
C3_SingleRetrieval == Cardinality(InFlightChains) <= 1

\* C4: a retrieval issued by an earlier run adds nothing to the result list
\* or the queue of the run a later start began.
C4_FreshRun ==
  [][\A c \in ChainIds :
       (Settles(c) /\ chains[c].run < run)
         => (pagesRef' = pagesRef /\ queueRef' = queueRef)]_vars

\* C5: once handleStop has set the status to paused, the status stays paused
\* until the next click on Crawl, no URL is dequeued and no retrieval is
\* started, and a 'process next' step returns without changing the queue,
\* the visited set, the results, the logs or the status.
C5_PausedRunHalts ==
  [][status = "PAUSED" =>
       /\ (status' = "PAUSED" \/ IsClick)
       /\ ~IsClick => /\ statusRef' = "PAUSED"
                      /\ NoNewRetrieval
                      /\ NoDequeue
                      /\ visitedRef' = visitedRef
       /\ \A c \in ChainIds :
            IsDelayedStep(c) =>
              /\ chains'[c] = IdleChain
              /\ UNCHANGED <<status, logs, statusRef, queueRef, visitedRef, pagesRef>>]_vars

\* C5 witness: the run is paused and its 'process next' step has returned
\* although URLs are still queued.
C5_Witness ==
  /\ status = "PAUSED"
  /\ queueRef # <<>>
  /\ \A c \in ChainIds : chains[c].pc = "idle"

\* C6: a retrieval that settles while the status is paused still has its
\* effect: on success exactly one Page Result for its URL is appended (and in
\* link-following mode its unseen links are appended to the queue), on
\* failure the error is logged and no result is appended; the status stays
\* paused and the chain's next step dequeues nothing.
C6_StopIsNotPreemptive ==
  [][status = "PAUSED" =>
       \A c \in ChainIds :
         /\ Settles(c) =>
              /\ status' = "PAUSED" /\ statusRef' = "PAUSED"
              /\ visitedRef' = visitedRef
              /\ IF chains'[c].settled = "failed"
                   THEN /\ pagesRef' = pagesRef
                        /\ queueRef' = queueRef
                        /\ logs' = Append(logs, LastLog(logs'))
                        /\ LastLog(logs').type = "error"
                   ELSE /\ Len(pagesRef') = Len(pagesRef) + 1
                        /\ SubSeq(pagesRef', 1, Len(pagesRef)) = pagesRef
                        /\ pagesRef'[Len(pagesRef')].url = chains[c].url
                        /\ pagesRef'[Len(pagesRef')].status = "success"
                        /\ queueRef' = queueRef \o
                             (IF chains[c].cfg.crawlMode = "link-follow"
                                THEN filterUnvisited(Document(chains[c].url).links,
                                                     visitedRef)
                                ELSE <<>>)
         /\ (chains[c].pc = "delay" /\ chains'[c] # chains[c]) =>
              (chains'[c].pc = "idle" /\ queueRef' = queueRef)]_vars

\* C6 witness: after the pause was logged a page was fetched and recorded,
\* its links were queued, and the status is still paused.
C6_Witness ==
  /\ status = "PAUSED"
  /\ Len(pagesRef) >= 1
  /\ queueRef # <<>>
  /\ \E i, j \in 1..Len(logs) :
       /\ i < j
       /\ logs[i].message = <<"Process paused by user.">>
       /\ logs[j].message = <<"Fetched">>

\* C7: after a pagination start whose ID range is empty the status is error
\* and, until the next click on Crawl, no URL is dequeued and no retrieval
\* is issued.
C7_AbortedStartIsQuiet ==
  [][(status = "ERROR" /\ ~IsClick) =>
       (NoNewRetrieval /\ NoDequeue /\ visitedRef' = visitedRef)]_vars

\* C8 as stated: a click on Crawl with an empty seed URL leaves the run
\* status equal to error.
C8_EmptySeedSetsError ==
  [][(IsClick /\ urlInput' = <<>>) => status' = "ERROR"]_vars

\* C8 as amended: a click on Crawl with an empty seed URL appends exactly one
\* error log entry, issues no retrieval and leaves the status, the queue, the
\* visited set and the results as they were.
C8_EmptySeedRejected ==
  [][(IsClick /\ urlInput' = <<>>) =>
       /\ logs' = addLog(logs, <<"Please enter a valid URL">>, "error")
       /\ NoNewRetrieval
       /\ UNCHANGED <<status, statusRef, queueRef, visitedRef, pagesRef, chains>>]_vars

\* C8 witness: the click with the empty seed was made on an idle engine, its
\* error is the only log entry and the status is still idle.
C8_Witness ==
  /\ urlInput = <<>>
  /\ crawls = 1
  /\ status = "IDLE"
  /\ logs = <<[message |-> <<"Please enter a valid URL">>, type |-> "error"]>>

\* C9: when the retrieval of a dequeued URL fails, an error is logged, the
\* result list, the queue and the status are unchanged, and the chain's
\* delayed step then goes on with the remaining queue.
C9_RetrievalFailureNonFatal ==
  [][\A c \in ChainIds :
       /\ (chains[c].pc = "fetch" /\ chains'[c].settled = "failed") =>
            /\ logs' = Append(logs, LastLog(logs'))
            /\ LastLog(logs').type = "error"
            /\ chains'[c].pc = "delay"
            /\ UNCHANGED <<status, statusRef, queueRef, visitedRef, pagesRef>>
       /\ (/\ IsDelayedStep(c)
           /\ chains[c].settled = "failed"
           /\ statusRef = "RUNNING"
           /\ queueRef # <<>>
           /\ ~(chains[c].cfg.crawlMode = "link-follow"
                  /\ Len(pagesRef) >= chains[c].cfg.maxPages)) =>
            /\ Len(queueRef') < Len(queueRef)
            /\ pagesRef' = pagesRef
            /\ (Head(queueRef) \notin visitedRef =>
                  (chains'[c].pc = "fetch" /\ chains'[c].url = Head(queueRef)))]_vars

\* C9 witness: a retrieval failed, the run went on to the next URL, which is
\* now in flight, and the status is still running.
C9_Witness ==
  /\ status = "RUNNING" /\ statusRef = "RUNNING"
  /\ \E i, j \in 1..Len(logs) :
       /\ i < j
       /\ logs[i].type = "error"
       /\ logs[j].message[1] = "Crawling"
  /\ \E c \in ChainIds : chains[c].pc = "fetch"

\* C10: whenever the Summarizer fails for a page (credentials missing or the
\* upstream call fails) a warning is logged and the page is recorded with
\* status success and the unsummarized text as its content.
C10_SummarizerFailureKeepsText ==
  [][\A c \in ChainIds :
       (chains[c].pc = "summarize" /\ chains'[c].settled \in {"nokey", "error"}) =>
         /\ LastLog(logs') = [message |-> <<"AI Summary skipped.">>, type |-> "warning"]
         /\ pagesRef' = Append(pagesRef,
               newPage(chains[c].url, chains[c].title,
                       contentAfter404(chains[c].title, PageText),
                       chains[c].links))]_vars

\* C11: every recorded page whose title matches the soft-404 heuristic has
\* status success and content that begins with the warning banner followed by
\* the extracted text, and the warning was logged, whether or not the page
\* was summarized.
C11_Soft404Banner ==
  \A k \in 1..Len(pagesRef) :
    isSoft404(pagesRef[k].title) =>
      /\ pagesRef[k].status = "success"
      /\ Len(pagesRef[k].content) >= Len(WarningBanner \o PageText)
      /\ SubSeq(pagesRef[k].content, 1, Len(WarningBanner \o PageText))
           = WarningBanner \o PageText
      /\ \E j \in 1..Len(logs) :
           logs[j] = [message |-> <<"Warning: Page appears to be empty or 404.">>,
                      type |-> "warning"]

\* the channels of the call in progress whose proxy answers ok with content of
\* at least 50 characters
SucceedingChannels ==
  {k \in 1..Len(retr.outcomes) :
     /\ retr.outcomes[k] \in {"empty", "short", "ok"}
     /\ HtmlLength(retr.outcomes[k]) >= MinHtmlLength}

FirstSucceeding == CHOOSE k \in SucceedingChannels : \A j \in SucceedingChannels : k <= j

\* C12: for every combination of channel outcomes the channels are contacted
\* in priority order, each once; when some channel succeeds the call returns
\* the content of the first succeeding channel with status 200 and no later
\* channel is contacted.
C12_FirstSuccessWins ==
  retr.result # "none" =>
    /\ retr.contacted = [k \in 1..Len(retr.contacted) |-> k]
    /\ SucceedingChannels # {} =>
         /\ Len(retr.contacted) <= FirstSucceeding
         /\ retr.result # "threw"
         /\ retr.result = "returned" =>
              /\ retr.html = FirstSucceeding
              /\ retr.status = 200
              /\ Len(retr.contacted) = FirstSucceeding

C12_Witness ==
  /\ retr.result = "returned"
  /\ retr.html = 3
  /\ retr.outcomes = <<"abort", "short", "ok", "ok", "notok">>

\* C13: the call throws its generic error only when every channel failed and
\* all channels have been contacted, and it never returns when every channel
\* fails.
C13_FailsIffAllFail ==
  /\ retr.result = "threw" =>
       /\ SucceedingChannels = {}
       /\ retr.contacted = [k \in 1..NumProxies |-> k]
  /\ (retr.result = "returned") => SucceedingChannels # {}

C13_Witness ==
  /\ retr.result = "threw"
  /\ retr.outcomes = <<"notok", "abort", "extractFails", "empty", "short">>

\* the number written in a URL whose other characters are not digits
IsDigit(ch) == \E v \in 1..10 : DigitChars[v] = ch
DigitValue(ch) == (CHOOSE v \in 1..10 : DigitChars[v] = ch) - 1
RECURSIVE parseDigits(_)
parseDigits(ds) ==
  IF ds = <<>> THEN 0
  ELSE 10 * parseDigits(SubSeq(ds, 1, Len(ds) - 1)) + DigitValue(ds[Len(ds)])
IndexWritten(url) == parseDigits(SelectSeq(url, IsDigit))

\* C14: for 0 <= start <= end the generator returns end-start+1 URLs, the
\* k-th carrying the index start+k-1, and the result is empty exactly when
\* start > end.
C14_RangeInclusiveAscending ==
  genr.done =>
    /\ (Len(genr.urls) = 0) <=> (genr.start > genr.end)
    /\ genr.start <= genr.end =>
         /\ Len(genr.urls) = genr.end - genr.start + 1
         /\ \A k \in 1..Len(genr.urls) :
              /\ SelectSeq(genr.urls[k], IsDigit) # <<>>
              /\ IndexWritten(genr.urls[k]) = genr.start + k - 1

C14_Witness ==
  /\ genr.done
  /\ genr.start = 9
  /\ genr.end = 11
  /\ genr.baseUrl = <<"n", "?", "p", "=">>
  /\ genr.urls = << <<"n", "?", "p", "=", "9">>,
                    <<"n", "?", "p", "=", "1", "0">>,
                    <<"n", "?", "p", "=", "1", "1">> >>

\* every occurrence of tok in s replaced by r
RECURSIVE substituteAll(_, _, _)
substituteAll(s, tok, r) ==
  IF s = <<>> THEN <<>>
  ELSE (IF Head(s) = tok THEN r ELSE <<Head(s)>>) \o substituteAll(Tail(s), tok, r)

\* C15: the URL for index i is the base with the placeholder substituted by i
\* and no placeholder left when the base holds one; otherwise the base
\* followed by i when it ends in "=" or "/", and by "/" and i in other cases.
C15_UrlShape ==
  genr.done =>
    \A k \in 1..Len(genr.urls) :
      LET i == toString(genr.start + k - 1)
          u == genr.urls[k]
      IN IF includes(genr.baseUrl, PLACEHOLDER)
           THEN /\ u = substituteAll(genr.baseUrl, PLACEHOLDER, i)
                /\ ~includes(u, PLACEHOLDER)
         ELSE IF endsWith(genr.baseUrl, "=") \/ endsWith(genr.baseUrl, "/")
           THEN u = genr.baseUrl \o i
         ELSE u = genr.baseUrl \o <<"/">> \o i

\* the mode of the run the current log belongs to, read from its first entry
RunMode(ls) ==
  IF ls = <<>> THEN "none"
  ELSE CASE ls[1].message[1] = "Generating URLs" -> "pagination"
         [] ls[1].message[1] = "Preparing" -> "single"
         [] ls[1].message[1] = "Starting Link Discovery" -> "link-follow"
         [] OTHER -> "none"

\* the URLs for which the current log shows a retrieval was started, in order
IsCrawlingLog(entry) == entry.message[1] = "Crawling"
RECURSIVE CrawledUrls(_)
CrawledUrls(ls) ==
  IF ls = <<>> THEN <<>>
  ELSE (IF IsCrawlingLog(Head(ls)) THEN <<Head(ls).message[2]>> ELSE <<>>)
       \o CrawledUrls(Tail(ls))

IsPrefix(a, b) == Len(a) <= Len(b) /\ a = SubSeq(b, 1, Len(a))

\* C16: in a pagination run that is not stopped, the URLs for which a
\* retrieval was started are, in order, a prefix of the generator's output
\* for (base, start, end), and the whole output once the run has completed.
C16_PaginationVisitOrder ==
  (RunMode(logs) = "pagination" /\ crawlMode = "pagination" /\ status \in {"RUNNING", "COMPLETED"}) =>
    LET expected == generatePaginatedUrls(urlInput, startPage, endPage)
    IN /\ IsPrefix(CrawledUrls(logs), expected)
       /\ status = "COMPLETED" => CrawledUrls(logs) = expected

\* the reasons with which the current log shows the run was finished
FinishReasons ==
  {logs[j].message[2] : j \in {i \in 1..Len(logs) : logs[i].message[1] = "Crawl Finished"}}

\* C17: a single or pagination run is never finished with reason 'limit
\* reached', a completed pagination run has started a retrieval for every
\* URL of its initial queue, and in these modes only a start writes to the
\* queue: no step appends a discovered link.
C17_LimitOnlyInLinkFollow ==
  [][/\ RunMode(logs') \in {"single", "pagination"} =>
          "Reached limit" \notin FinishReasons'
     /\ (RunMode(logs') = "pagination" /\ crawlMode' = "pagination"
           /\ status' = "COMPLETED") =>
          \A k \in 1..Len(generatePaginatedUrls(urlInput', startPage', endPage')) :
            generatePaginatedUrls(urlInput', startPage', endPage')[k] \in visitedRef'
     /\ (RunMode(logs) \in {"single", "pagination"} /\ ~IsClick) =>
          Len(queueRef') <= Len(queueRef)]_vars

\* the place in the current log of the first retrieval start for url, 0 if none
DequeuedAt(url) ==
  IF \E j \in 1..Len(logs) : logs[j].message = <<"Crawling", url>>
    THEN CHOOSE j \in 1..Len(logs) :
           /\ logs[j].message = <<"Crawling", url>>
           /\ \A i \in 1..(j-1) : logs[i].message # <<"Crawling", url>>
    ELSE 0

\* C18: of two Page Results whose URLs were dequeued in the current run, the
\* one earlier in the result list was dequeued earlier.
C18_ResultsInDequeueOrder ==
  \A i, j \in 1..Len(pagesRef) :
    (/\ i < j
     /\ pagesRef[i].url # pagesRef[j].url
     /\ DequeuedAt(pagesRef[i].url) > 0
     /\ DequeuedAt(pagesRef[j].url) > 0) =>
      DequeuedAt(pagesRef[i].url) < DequeuedAt(pagesRef[j].url)

\* C19: the visited set contains the url of every Page Result in the result
\* list, also after a stop and a new start during a retrieval.
C19_ResultsAreVisited ==
  \A k \in 1..Len(pagesRef) : pagesRef[k].url \in visitedRef

\* the run has completed the way its mode allows: a single or pagination run
\* with its queue exhausted and not by the page limit
CompletedByItsMode ==
  /\ status = "COMPLETED"
  /\ RunMode(logs) \in {"single", "pagination"} =>
       /\ queueRef = <<>>
       /\ "Reached limit" \notin FinishReasons

\* C20: when pending retrievals and delayed steps eventually fire, a running
\* run is eventually stopped by the user or completed, a single or
\* pagination run by exhausting its queue.
C20_RunCompletes ==
  [](status = "RUNNING" => <>(status = "PAUSED" \/ CompletedByItsMode))

\* the places of tok in doc from place i on, in order
RECURSIVE PlacesFrom(_, _, _)
PlacesFrom(doc, tok, i) ==
  IF i > Len(doc) THEN <<>>
  ELSE (IF doc[i] = tok THEN <<i>> ELSE <<>>) \o PlacesFrom(doc, tok, i + 1)

\* the digits written in doc from place i on
RECURSIVE DigitsAt(_, _)
DigitsAt(doc, i) ==
  IF i <= Len(doc) /\ IsDigit(doc[i]) THEN <<doc[i]>> \o DigitsAt(doc, i + 1) ELSE <<>>

\* doc holds the tokens of part from place i on
HoldsAt(doc, i, part) ==
  /\ i + Len(part) - 1 <= Len(doc)
  /\ SubSeq(doc, i, i + Len(part) - 1) = part

\* what the claim says follows the number of a per-record header
FieldsOf(page) ==
  <<": ">> \o page.url \o <<"\n", "TITLE: ">> \o page.title
  \o <<"\n", "STATUS: ", page.status, "\n", RecordRule, "\n">> \o page.content

\* the export of expo.pages as the claim describes it, read back from the file
ExportAsClaimed ==
  IF Len(expo.pages) = 0
    THEN /\ ~expo.made
         /\ expo.file = <<>>
         /\ expo.logs = <<[message |-> <<"No data to download.">>, type |-> "warning"]>>
    ELSE LET N == Len(expo.pages)
             totals == PlacesFrom(expo.file, "Total Pages: ", 1)
             marks == PlacesFrom(expo.file, "FILE #", 1)
         IN /\ expo.made
            /\ totals # <<>>
            /\ DigitsAt(expo.file, totals[1] + 1) # <<>>
            /\ parseDigits(DigitsAt(expo.file, totals[1] + 1)) = N
            /\ Len(marks) = N
            /\ \A k \in 1..N :
                 /\ DigitsAt(expo.file, marks[k] + 1) = toString(k)
                 /\ HoldsAt(expo.file, marks[k] + 1 + Len(toString(k)),
                            FieldsOf(expo.pages[k]))

\* C21 as stated: for any list of Page Results the file has a total of N and
\* exactly N per-record headers numbered 1..N, each followed by its page's
\* url, title, status and content; with no result no file is made and a
\* warning is logged.
C21_ExportCounts == expo.done => ExportAsClaimed

\* no url, title or content of the exported pages holds the header text
PlainPages ==
  \A k \in 1..Len(expo.pages) :
    /\ ~includes(expo.pages[k].url, "FILE #")
    /\ ~includes(expo.pages[k].title, "FILE #")
    /\ ~includes(expo.pages[k].content, "FILE #")

\* C21 amended: the same for lists of Page Results none of whose url, title
\* or content holds the text of a per-record header.
C21_ExportCountsOfPlainPages == (expo.done /\ PlainPages) => ExportAsClaimed

C21_Witness ==
  /\ expo.made
  /\ PlainPages
  /\ Len(expo.pages) = 2
  /\ expo.pages[1].url = UrlC
  /\ expo.pages[2].url = UrlA

\* the j-th smallest member of a set of places
NthOf(places, j) == CHOOSE k \in places : Cardinality({i \in places : i < k}) = j - 1

\* the resolved hrefs of the anchors at these places, in document order
ResolvedInOrder(places) ==
  [j \in 1..Cardinality(places) |->
     newURL(extr.anchors[NthOf(places, j)].href, origin(extr.url)).href]

SourceParses == extr.url # <<>> /\ extr.url[1] \in SpecialSchemes

\* a link is absolute: a scheme, "//" and a host come first
IsAbsolute(link) == Len(link) >= 3 /\ link[1] \in Schemes /\ link[2] = "//"

\* the anchors whose href resolves against the origin to an http(s) URL
ResolvingPlaces ==
  {k \in 1..Len(extr.anchors) :
     LET abs == newURL(extr.anchors[k].href, origin(extr.url))
     IN abs.ok /\ abs.href[1] \in SpecialSchemes}

\* C22 as stated: the links are, in document order and with duplicates, the
\* resolved hrefs of exactly the anchors whose href resolves against the
\* origin of the source to an http(s) URL; every link is absolute; a source
\* that does not parse gives no links.
C22_LinksAsClaimed ==
  extr.done =>
    IF SourceParses
      THEN /\ extr.links = ResolvedInOrder(ResolvingPlaces)
           /\ \A j \in 1..Len(extr.links) : IsAbsolute(extr.links[j])
      ELSE extr.links = <<>>

\* the anchors left after the removal pass whose href is not empty and
\* resolves against the origin to a URL whose text begins with "http"
KeptPlaces ==
  {k \in 1..Len(extr.anchors) :
     LET abs == newURL(extr.anchors[k].href, origin(extr.url))
     IN /\ ~extr.anchors[k].inTrash
        /\ extr.anchors[k].href # <<>>
        /\ abs.ok
        /\ abs.href[1] \in {"http:", "https:", "httpx:"}}

\* C22 amended: the same for the anchors that are left after the removal
\* pass, have a non-empty href and resolve to a URL beginning with "http".
C22_LinksOfKeptAnchors ==
  extr.done =>
    IF SourceParses
      THEN /\ extr.links = ResolvedInOrder(KeptPlaces)
           /\ \A j \in 1..Len(extr.links) : IsAbsolute(extr.links[j])
      ELSE extr.links = <<>>

C22_Witness ==
  /\ extr.done
  /\ extr.url = <<"https:", "//", "x.com", "/", "p">>
  /\ extr.anchors = << [href |-> <<"/", "a", "/", "b">>, inTrash |-> FALSE],
                       [href |-> <<"http:", "//">>, inTrash |-> FALSE] >>
  /\ extr.links = << <<"https:", "//", "x.com", "/", "a", "/", "b">> >>

\* the members of seq at these places, in the order of seq
TakenInOrder(seq, places) ==
  [j \in 1..Cardinality(places) |-> seq[NthOf(places, j)]]

\* this step records the page of the retrieval chain c had in flight
RecordsPage(c) == Settles(c) /\ Len(pagesRef') = Len(pagesRef) + 1

\* what this step added at the tail of the queue
Enqueued == SubSeq(queueRef', Len(queueRef) + 1, Len(queueRef'))

\* C23: when a link-following chain records a page with links L, the queue
\* becomes the old queue followed by the members of L that are not in the
\* visited set, in the order of L with repeats kept (queued URLs are not
\* filtered); no visited URL and not the page's own URL is appended.
C23_EnqueueUnvisitedLinks ==
  [][\A c \in ChainIds :
       (RecordsPage(c) /\ chains[c].cfg.crawlMode = "link-follow") =>
         LET L == Document(chains[c].url).links
             unseen == {k \in 1..Len(L) : L[k] \notin visitedRef}
         IN /\ Len(queueRef') >= Len(queueRef)
            /\ queueRef' = queueRef \o TakenInOrder(L, unseen)
            /\ \A j \in 1..Len(Enqueued) :
                 /\ Enqueued[j] \notin visitedRef
                 /\ Enqueued[j] # chains[c].url]_vars

\* the delayed step of chain c finds a visited URL at the head of the queue
SkipsHead(c) ==
  /\ IsDelayedStep(c)
  /\ statusRef = "RUNNING"
  /\ queueRef # <<>>
  /\ ~(chains[c].cfg.crawlMode = "link-follow" /\ Len(pagesRef) >= chains[c].cfg.maxPages)
  /\ Head(queueRef) \in visitedRef

\* the places of the queue that hold a URL not yet visited
UnseenPlaces == {k \in 1..Len(queueRef) : queueRef[k] \notin visitedRef}
FirstUnseen == CHOOSE k \in UnseenPlaces : \A j \in UnseenPlaces : k <= j

\* C24: a step that dequeues a visited URL only removes it: no Page Result,
\* no log entry, no retrieval and no change of the visited set for it; the
\* next step runs within the same step, so that the chain ends up retrieving
\* the first unvisited URL of the queue or, when there is none, completing
\* with the queue empty.
C24_SkipVisitedHead ==
  [][\A c \in ChainIds :
       SkipsHead(c) =>
         /\ pagesRef' = pagesRef
         /\ IF UnseenPlaces = {}
              THEN /\ queueRef' = <<>>
                   /\ visitedRef' = visitedRef
                   /\ status' = "COMPLETED"
                   /\ logs' = addLog(logs, <<"Crawl Finished", "Queue is empty.">>, "success")
                   /\ chains'[c].pc = "idle"
              ELSE /\ queueRef' = SubSeq(queueRef, FirstUnseen + 1, Len(queueRef))
                   /\ visitedRef' = visitedRef \cup {queueRef[FirstUnseen]}
                   /\ status' = status
                   /\ logs' = addLog(logs, <<"Crawling", queueRef[FirstUnseen]>>, "info")
                   /\ chains'[c].pc = "fetch"
                   /\ chains'[c].url = queueRef[FirstUnseen]]_vars

\* 'b' failed, its second occurrence in the queue was skipped, 'c' is retrieved
C24_Witness ==
  /\ chains[1].pc = "fetch"
  /\ chains[1].url = UrlC
  /\ chains[1].cfg.crawlMode = "link-follow"
  /\ visitedRef = {UrlA, UrlB, UrlC}
  /\ Len(pagesRef) = 1
  /\ queueRef = <<>>
  /\ status = "RUNNING"

\* C25: the status changes only by a start (to running, or to error when
\* the start is aborted) or from running to paused or completed; completed
\* is entered only from running, by an engine step that logs which of the
\* queue or the limit ended the run; a paused or errored run is not marked
\* completed.
C25_StatusTransitions ==
  [][status' # status =>
       \/ IsClick /\ status # "RUNNING" /\ status' \in {"RUNNING", "ERROR"}
       \/ /\ status = "RUNNING"
          /\ ~IsClick
          /\ status' \in {"PAUSED", "COMPLETED"}
          /\ status' = "COMPLETED" =>
               /\ LastLog(logs').message[1] = "Crawl Finished"
               /\ \E c \in ChainIds : IsDelayedStep(c)]_vars

\* C26: every step leaves the Page Result list unchanged or appends one
\* entry with status success, except a start that resets the run, which
\* empties it; so no entry is changed or removed within a run.
C26_ResultsAppendOnly ==
  [][\/ pagesRef' = pagesRef
     \/ /\ Len(pagesRef') = Len(pagesRef) + 1
        /\ SubSeq(pagesRef', 1, Len(pagesRef)) = pagesRef
        /\ pagesRef'[Len(pagesRef')].status = "success"
        /\ ~IsClick
     \/ /\ IsClick
        /\ run' = run + 1
        /\ pagesRef' = <<>>]_vars

C26_Witness ==
  /\ Len(pagesRef) = 2
  /\ pagesRef[1].url = UrlA
  /\ pagesRef[2].url = UrlB
  /\ status = "RUNNING"

\* the controls as they are now
LiveControls ==
  [crawlMode |-> crawlMode, maxPages |-> maxPages, isGeminiEnabled |-> isGeminiEnabled]

\* this step finishes the run because of the page limit
FinishesByLimit ==
  /\ logs' # logs
  /\ LastLog(logs') = [message |-> <<"Crawl Finished", "Reached limit">>, type |-> "success"]

\* C27: a chain keeps the mode, page limit and summarization switch the
\* controls had at its start: changes of the controls do not change them,
\* and its limit check, link enqueueing and summarization follow them
\* whatever the controls show now.
C27_ConfigCapturedAtStart ==
  [][/\ (IsClick /\ chains'[crawls'].pc # "idle") =>
          chains'[crawls'].cfg =
            [crawlMode |-> crawlMode', maxPages |-> maxPages',
             isGeminiEnabled |-> isGeminiEnabled']
     /\ \A c \in ChainIds :
          LET cfg == chains[c].cfg
          IN /\ (chains[c].pc # "idle" /\ chains'[c].pc # "idle") =>
                  chains'[c].cfg = cfg
             /\ (IsDelayedStep(c) /\ statusRef = "RUNNING" /\ queueRef # <<>>) =>
                  (FinishesByLimit <=>
                     (cfg.crawlMode = "link-follow" /\ Len(pagesRef) >= cfg.maxPages))
             /\ RecordsPage(c) =>
                  ((Len(queueRef') > Len(queueRef)) => cfg.crawlMode = "link-follow")
             /\ (chains[c].pc = "fetch" /\ chains'[c].settled = "fetched"
                   /\ chains'[c].pc # "fetch") =>
                  (chains'[c].pc = "summarize" <=> cfg.isGeminiEnabled)]_vars

\* the chain is about to check a limit of 2 while the control shows 1, which
\* the one page recorded has already reached
C27_Witness ==
  /\ status = "RUNNING"
  /\ chains[1].pc = "delay"
  /\ chains[1].cfg.crawlMode = "link-follow"
  /\ chains[1].cfg.maxPages = 2
  /\ crawlMode = "link-follow"
  /\ maxPages = 1
  /\ Len(pagesRef) = 1

\* C28: the status shown and the status processQueue tests are equal in
\* every state: after a start, an aborted start, a completion and a stop.
C28_StatusMirrorsRef == status = statusRef

\* this step starts a retrieval on chain c
StartsRetrieval(c) ==
  /\ chains'[c].pc = "fetch"
  /\ chains[c].pc # "fetch" \/ chains[c].url # chains'[c].url

\* C29: within a run no URL has two retrievals started; a URL is put in the
\* visited set by the step that starts its retrieval and is not visited
\* before; nothing leaves the visited set until the next start; and a URL
\* whose retrieval, started in the current run, has just failed has no Page
\* Result in the list.
C29_RetrievedAtMostOnce ==
  [][/\ \A i, j \in 1..Len(logs') :
          (i < j /\ IsCrawlingLog(logs'[i]) /\ IsCrawlingLog(logs'[j])) =>
            logs'[i].message[2] # logs'[j].message[2]
     /\ ~IsClick => visitedRef \subseteq visitedRef'
     /\ \A c \in ChainIds :
          /\ StartsRetrieval(c) =>
               /\ chains'[c].url \in visitedRef'
               /\ ~IsClick => chains'[c].url \notin visitedRef
          /\ (chains'[c].pc = "delay" /\ chains'[c].settled = "failed"
                /\ chains'[c].run = run') =>
               \A k \in 1..Len(pagesRef') : pagesRef'[k].url # chains'[c].url]_vars

====
